---- MODULE Spec2Model ----
(***************************************************************************)
(* The ledger core of the-wolf-of-ayup: TransactionService (buyStock,      *)
(* sellStock, wireToUser, wireToEntity) over the users, stocks,            *)
(* users_stocks and transactions tables, through UserDAO and StockDAO.     *)
(*                                                                         *)
(* Every awaited call of an operation is one step.  A statement sent       *)
(* between BEGIN and COMMIT is kept in the connection's open transaction   *)
(* and reaches the tables at COMMIT (PostgreSQL READ COMMITTED); UPDATE    *)
(* takes the row lock until COMMIT or ROLLBACK.  A statement that throws   *)
(* has had no effect.  Date.now() is a millisecond clock that never runs   *)
(* backwards in the model but may return the same value twice.             *)
(***************************************************************************)
EXTENDS Integers, Sequences, FiniteSets, TLC

\* ---------------------------------------------------------------- bounds
MaxLog == 1          \* Spec: calls start while fewer records are committed
MaxClock == 2        \* greatest value Date.now() reaches
MaxFaults == 1       \* storage statements that may throw in one behaviour
MaxQty == 2          \* greatest quantity / amount passed in

Procs == {"p1", "p2"}           \* concurrent callers (async invocations)
SeqProc == "p1"                 \* the single caller of the sequential Spec
Uids == {"a", "b", "z"}         \* "z" has no users row
Tickers == {"X", "Q"}           \* "Q" has no stocks row
Entities == {"b", "ext"}        \* wireToEntity destinations ("b" is also a uid)
Amounts == (-1)..MaxQty

NULL == [null |-> TRUE]         \* JavaScript null / no row
Max(x, y) == IF x > y THEN x ELSE y

\* ------------------------------------------------------------ the tables
\* the rows a database holds when the service starts: reference data, and
\* users and holdings left by earlier trading
InitStocks == << [ticker |-> "X", price |-> 2] >>
InitStores ==
  { [users |->
       << [uid |-> "a", balance |-> 3, credit_limit |-> 2, loan_balance |-> 0],
          [uid |-> "b", balance |-> 1, credit_limit |-> 2, loan_balance |-> 1] >>,
     users_stocks |->
       << [uid |-> "a", ticker |-> "X", quantity |-> 1, timestamp |-> 0] >>],
    [users |->
       << [uid |-> "a", balance |-> 0, credit_limit |-> 2, loan_balance |-> 2],
          [uid |-> "b", balance |-> 4, credit_limit |-> 0, loan_balance |-> 0] >>,
     users_stocks |->
       << [uid |-> "a", ticker |-> "X", quantity |-> 2, timestamp |-> 0],
          [uid |-> "b", ticker |-> "X", quantity |-> 1, timestamp |-> 0],
          [uid |-> "b", ticker |-> "X", quantity |-> 0, timestamp |-> 1] >>] }

VARIABLES
  users,          \* table users: sequence of rows
  stocks,         \* table stocks
  users_stocks,   \* table users_stocks: holding snapshots, in insertion order
  transactions,   \* table transactions: the log, in insertion order
  now,            \* last value returned by Date.now()
  locks,          \* users row locks: uid -> holder or "none"
  faults,         \* storage statements that have thrown so far
  leaked,         \* connections of finished calls never released
  pc,             \* per caller: the awaited call it is at
  call,           \* per caller: operation and arguments
  loc,            \* per caller: the locals user, stock, holding, destUser, record
  tx,             \* per caller: the open transaction of its connection
  err,            \* per caller: the error caught by the catch block
  held,           \* per caller: holds a pool connection
  result,         \* per caller: what the finished call returned or threw
  pre,            \* per caller: the tables when the call started
  opening         \* history: the users table before the first operation

vars == << users, stocks, users_stocks, transactions, now, locks, faults, leaked,
           pc, call, loc, tx, err, held, result, pre, opening >>

store == [users |-> users, users_stocks |-> users_stocks,
          transactions |-> transactions, stocks |-> stocks]

NoCall == [op |-> "none", uid |-> "a", ticker |-> "X", n |-> 0,
           useCredit |-> FALSE, dest |-> "a"]
NoLoc == [user |-> NULL, stock |-> NULL, holding |-> NULL, destUser |-> NULL,
          record |-> NULL]
NoTx == [open |-> FALSE, users_stocks |-> <<>>, users |-> <<>>, transactions |-> <<>>]
NoResult == [kind |-> "none"]

\* ------------------------------------------------------------- UserDAO
First(rows) == IF rows = <<>> THEN NULL ELSE rows[1]     \* result.rows[0] || null

getUser(tbl, uid) == First(SelectSeq(tbl, LAMBDA r : r.uid = uid))

\* the column names of u.*, us.* and s.* in SELECT u.*, us.*, s.*
UserColumns == {"uid", "balance", "credit_limit", "loan_balance"}
HoldingColumns == {"uid", "ticker", "quantity", "timestamp"}
StockColumns == {"ticker", "price"}

\* LatestHoldings without the join on MAX(timestamp): every snapshot
LatestHoldings_AllSnapshots(us_tbl) ==
  DOMAIN us_tbl

\* the subquery us: the snapshots whose timestamp is the MAX(timestamp) of
\* their (uid, ticker) group, as row numbers of users_stocks
LatestHoldings(us_tbl) ==
  { k \in DOMAIN us_tbl :
      \A j \in DOMAIN us_tbl :
        (us_tbl[j].uid = us_tbl[k].uid /\ us_tbl[j].ticker = us_tbl[k].ticker)
          => us_tbl[j].timestamp <= us_tbl[k].timestamp }

\* users u LEFT JOIN us ON u.uid = us.uid LEFT JOIN stocks s ON us.ticker =
\* s.ticker WHERE u.uid = $1, as triples of row numbers; 0 is the all-NULL side
JoinedRows(u_tbl, us_tbl, s_tbl, uid) ==
  LET U == { i \in DOMAIN u_tbl : u_tbl[i].uid = uid }
      K == { k \in LatestHoldings(us_tbl) : us_tbl[k].uid = uid }
      M(k) == { m \in DOMAIN s_tbl : s_tbl[m].ticker = us_tbl[k].ticker }
  IN IF K = {} THEN { [u |-> i, us |-> 0, s |-> 0] : i \in U }
     ELSE UNION { UNION { IF M(k) = {} THEN { [u |-> i, us |-> k, s |-> 0] }
                          ELSE { [u |-> i, us |-> k, s |-> m] : m \in M(k) }
                          : k \in K } : i \in U }

\* the columns cols of a joined table laid over the object: a later column
\* of the same name replaces the earlier one, a NULL column leaves no value
Overlay(obj, row, cols) ==
  IF row = NULL THEN [f \in DOMAIN obj \ cols |-> obj[f]]
  ELSE [f \in DOMAIN obj \cup cols |-> IF f \in cols THEN row[f] ELSE obj[f]]

\* the object the driver builds for one joined row
RowObject(u_tbl, us_tbl, s_tbl, j) ==
  Overlay(Overlay(u_tbl[j.u],
                  IF j.us = 0 THEN NULL ELSE us_tbl[j.us], HoldingColumns),
          IF j.s = 0 THEN NULL ELSE s_tbl[j.s], StockColumns)

\* COALESCE(s.price * us.quantity, 0)
HeldValue(us_tbl, s_tbl, j) ==
  IF j.us = 0 \/ j.s = 0 THEN 0 ELSE s_tbl[j.s].price * us_tbl[j.us].quantity

\* OrderedRows without the ORDER BY: the rows in any order
OrderedRows_Unsorted(us_tbl, s_tbl, J) ==
  { rows \in [1..Cardinality(J) -> J] :
      \A a, b \in DOMAIN rows : a # b => rows[a] # rows[b] }

\* the orders ORDER BY COALESCE(s.price * us.quantity, 0) DESC can return
OrderedRows(us_tbl, s_tbl, J) ==
  { rows \in [1..Cardinality(J) -> J] :
      /\ \A a, b \in DOMAIN rows : a # b => rows[a] # rows[b]
      /\ \A a, b \in DOMAIN rows :
           a < b => HeldValue(us_tbl, s_tbl, rows[a]) >= HeldValue(us_tbl, s_tbl, rows[b]) }

\* result.rows[0] as User
AsUser(obj) == [f \in DOMAIN obj \cap UserColumns |-> obj[f]]

\* row.quantity > 0, which is false for a NULL quantity
PositiveQuantity(obj) == "quantity" \in DOMAIN obj /\ obj.quantity > 0

\* the UserPortfolio values the call can return (one for each order the
\* store can return the rows in); null when the query returns no row
getUserPortfolio(u_tbl, us_tbl, s_tbl, uid) ==
  LET J == JoinedRows(u_tbl, us_tbl, s_tbl, uid)
  IN IF J = {} THEN {NULL}
     ELSE { LET objs == [i \in DOMAIN rows |-> RowObject(u_tbl, us_tbl, s_tbl, rows[i])]
            IN [user |-> AsUser(objs[1]),
                portfolio |-> IF "ticker" \in DOMAIN objs[1]
                              THEN SelectSeq(objs, PositiveQuantity)
                              ELSE <<>>]
            : rows \in OrderedRows(us_tbl, s_tbl, J) }

\* INSERT INTO users (keys of user): the columns the object lacks take the
\* defaults of the table
createUser(tbl, user) ==
  Append(tbl, [f \in UserColumns |-> IF f \in DOMAIN user THEN user[f] ELSE 0])

ApplySet(row, set) ==
  [f \in DOMAIN row |-> IF f \in DOMAIN set THEN set[f] ELSE row[f]]

\* updateUser without the WHERE clause: every row takes the fields
updateUser_AllRows(tbl, uid, set) ==
  [i \in DOMAIN tbl |-> ApplySet(tbl[i], set)]

updateUser(tbl, uid, set) ==
  [i \in DOMAIN tbl |-> IF tbl[i].uid = uid THEN ApplySet(tbl[i], set) ELSE tbl[i]]

createStockHolding(tbl, holding) == Append(tbl, holding)

HoldingsOf(tbl, uid, ticker) ==
  { tbl[i] : i \in { j \in DOMAIN tbl : tbl[j].uid = uid /\ tbl[j].ticker = ticker } }

\* ORDER BY timestamp DESC LIMIT 1: any row of the greatest timestamp
getMostRecentStockHolding(tbl, uid, ticker) ==
  LET hs == HoldingsOf(tbl, uid, ticker) IN
  IF hs = {} THEN {NULL}
  ELSE { h \in hs : \A g \in hs : g.timestamp <= h.timestamp }

\* ------------------------------------------------------------ StockDAO
\* INSERT INTO stocks (keys of stock)
createStock(tbl, stock) == Append(tbl, stock)

\* SELECT * FROM stocks; result.rows.length ? result.rows : []
getAllStocks(tbl) == tbl

updateStock(tbl, ticker, set) ==
  [i \in DOMAIN tbl |-> IF tbl[i].ticker = ticker THEN ApplySet(tbl[i], set) ELSE tbl[i]]

deleteStock(tbl, ticker) == SelectSeq(tbl, LAMBDA r : r.ticker # ticker)

getStock(tbl, ticker) == First(SelectSeq(tbl, LAMBDA r : r.ticker = ticker))

\* ------------------------------------------------------ TransactionDAO
createTransaction(tbl, rec) == Append(tbl, rec)

\* ------------------------------------------- TransactionService, locals
cost(stock, add) == stock.price * add

userAvailableCredit(user) == Max(user.credit_limit - user.loan_balance, 0)

\* buyAllowed with >= for > : credit that exactly covers the cost is accepted
buyAllowed_NonStrict(user, stock, add, useCredit) ==
  \/ ~(user.balance < cost(stock, add))
  \/ useCredit /\ user.balance + userAvailableCredit(user) >= stock.price * add

\* buyAllowed without the credit-limit test: useCredit alone admits the buy
buyAllowed_NoLimit(user, stock, add, useCredit) ==
  \/ ~(user.balance < cost(stock, add))
  \/ useCredit

\* buyAllowed without the useCredit test: credit is drawn without being asked
buyAllowed_IgnoresFlag(user, stock, add, useCredit) ==
  \/ ~(user.balance < cost(stock, add))
  \/ user.balance + userAvailableCredit(user) > stock.price * add

\* the condition under which buyStock does not throw InsufficientBalanceError
buyAllowed(user, stock, add, useCredit) ==
  \/ ~(user.balance < cost(stock, add))
  \/ useCredit /\ user.balance + userAvailableCredit(user) > stock.price * add

useCreditAmount(user, stock, add) ==
  IF user.balance < cost(stock, add) THEN stock.price * add - user.balance ELSE 0

buyNewQuantity(holding, add) ==
  IF holding # NULL THEN holding.quantity + add ELSE add

\* buyNewBalance without the credit drawn
buyNewBalance_IgnoresCredit(user, stock, add) ==
  user.balance - cost(stock, add)

buyNewBalance(user, stock, add) ==
  user.balance + useCreditAmount(user, stock, add) - cost(stock, add)

buyNewDebt(user, stock, add) ==
  user.loan_balance + useCreditAmount(user, stock, add)

buyRecord(c, user, stock, t) ==
  [type |-> "buy", uid |-> c.uid, ticker |-> c.ticker,
   balance_change |-> -(cost(stock, c.n) - useCreditAmount(user, stock, c.n)),
   credit_change |-> useCreditAmount(user, stock, c.n),
   quantity |-> c.n, price |-> stock.price, total_price |-> cost(stock, c.n),
   timestamp |-> t]

\* sellRejected without the quantity comparison
sellRejected_OnlyMissing(holding, remove) ==
  holding = NULL

sellRejected(holding, remove) ==
  holding = NULL \/ remove > holding.quantity

ownedQuantity(holding) ==             \* holding?.quantity || 0
  IF holding = NULL THEN 0 ELSE holding.quantity

sellNewQuantity(holding, remove) == holding.quantity - remove

sellNewBalance(user, stock, remove) == user.balance + stock.price * remove

sellRecord(c, stock, t) ==
  [type |-> "sell", uid |-> c.uid, ticker |-> c.ticker, quantity |-> c.n,
   balance_change |-> stock.price * c.n, credit_change |-> 0,
   price |-> stock.price, total_price |-> stock.price * c.n, timestamp |-> t]

\* wireInsufficient without the comparison: every wire is let through
wireInsufficient_Never(fromUser, amount) == FALSE

\* wireInsufficient refusing also a wire of the whole balance
wireInsufficient_Inclusive(fromUser, amount) == fromUser.balance <= amount

wireInsufficient(fromUser, amount) == fromUser.balance < amount

\* wireNewFromBalance with the sign of the amount reversed
wireNewFromBalance_Credits(fromUser, amount) == fromUser.balance + amount

wireNewFromBalance(fromUser, amount) == fromUser.balance - amount

wireNewDestBalance(destUser, amount) == destUser.balance + amount

wireRecord(c, isUser, t) ==
  [type |-> "wire", uid |-> c.uid, balance_change |-> -c.n,
   destination |-> c.dest, is_destination_user |-> isUser, timestamp |-> t]

\* ------------------------------------------------------------- errors
UserNotFoundError(uid) == [kind |-> "UserNotFoundError", uid |-> uid]
StockNotFoundError(ticker) == [kind |-> "StockNotFoundError", ticker |-> ticker]
InsufficientBalanceError(uid, balance, required) ==
  [kind |-> "InsufficientBalanceError", uid |-> uid, balance |-> balance,
   required |-> required]
InsufficientStockQuantityError(uid, owned, requested) ==
  [kind |-> "InsufficientStockQuantityError", uid |-> uid, owned |-> owned,
   requested |-> requested]
StorageError(at) == [kind |-> "StorageError", at |-> at]
Ok(rec) == [kind |-> "ok", record |-> rec]
\* throw new Error("No fields to update")
NoFieldsError == [kind |-> "Error", message |-> "No fields to update"]
\* what a repository call returned
Returned(v) == [kind |-> "ok", value |-> v]

\* ----------------------------------------------------------------- Init
Init ==
  /\ \E s \in InitStores :
       /\ users = s.users
       /\ opening = s.users
       /\ users_stocks = s.users_stocks
       /\ pre = [p \in Procs |-> [users |-> s.users, users_stocks |-> s.users_stocks,
                                  transactions |-> <<>>, stocks |-> InitStocks]]
  /\ stocks = InitStocks
  /\ transactions = <<>>
  /\ now = 1
  /\ locks = [u \in Uids |-> "none"]
  /\ faults = 0
  /\ leaked = 0
  /\ pc = [p \in Procs |-> "idle"]
  /\ call = [p \in Procs |-> NoCall]
  /\ loc = [p \in Procs |-> NoLoc]
  /\ tx = [p \in Procs |-> NoTx]
  /\ err = [p \in Procs |-> NoResult]
  /\ held = [p \in Procs |-> FALSE]
  /\ result = [p \in Procs |-> NoResult]

\* ------------------------------------------------------ steps of a call
Calls ==
  [op : {"buyStock"}, uid : Uids, ticker : Tickers, n : Amounts,
   useCredit : BOOLEAN, dest : {"a"}]
  \cup [op : {"sellStock"}, uid : Uids, ticker : Tickers, n : Amounts,
        useCredit : {FALSE}, dest : {"a"}]
  \cup [op : {"wireToUser"}, uid : Uids, ticker : {"X"}, n : Amounts,
        useCredit : {FALSE}, dest : Uids]
  \cup [op : {"wireToEntity"}, uid : Uids, ticker : {"X"}, n : Amounts,
        useCredit : {FALSE}, dest : Entities]

IsTrade(c) == c.op \in {"buyStock", "sellStock"}

\* the calls of the concurrent specification: those that pass the existence
\* checks and move a quantity or an amount
ConcCalls ==
  { c \in Calls : /\ c.uid # "z"
                  /\ c.n # 0
                  /\ IsTrade(c) => c.ticker = "X"
                  /\ c.op = "wireToUser" => c.dest # "z"
                  /\ c.op = "wireToEntity" => c.dest = "ext" }


\* Date.now(): the clock has not moved, or has moved on
DateNow == { t \in {now, now + 1} : t <= MaxClock }

\* the call ends by throwing e; the connection is released first iff release
Throw(p, e, release) ==
  /\ result' = [result EXCEPT ![p] = e]
  /\ pc' = [pc EXCEPT ![p] = "done"]
  /\ held' = [held EXCEPT ![p] = IF release THEN FALSE ELSE held[p]]

Goto(p, label) ==
  /\ pc' = [pc EXCEPT ![p] = label]
  /\ UNCHANGED << result, held >>

\* a caller invokes an operation
Invoke(p, c) ==
  /\ pc[p] = "idle"
  /\ pc' = [pc EXCEPT ![p] = "connect"]
  /\ call' = [call EXCEPT ![p] = c]
  /\ pre' = [pre EXCEPT ![p] = store]
  /\ UNCHANGED << users, stocks, opening, users_stocks, transactions, now, locks, faults,
                  leaked, loc, tx, err, held, result >>

\* sequential use: one caller, one operation at a time
CallSeq(c) ==
  /\ Len(transactions) < MaxLog
  /\ Invoke(SeqProc, c)

\* concurrent use: every caller invokes one operation, at any time
CallConc(p, c) ==
  /\ Invoke(p, c)

\* the caller has taken the record or the error; a connection the operation
\* did not release stays checked out of the pool
Return(p) ==
  /\ pc[p] = "done"
  /\ pc' = [pc EXCEPT ![p] = "idle"]
  /\ call' = [call EXCEPT ![p] = NoCall]
  /\ loc' = [loc EXCEPT ![p] = NoLoc]
  /\ err' = [err EXCEPT ![p] = NoResult]
  /\ result' = [result EXCEPT ![p] = NoResult]
  /\ pre' = [pre EXCEPT ![p] = store]
  /\ leaked' = leaked + (IF held[p] THEN 1 ELSE 0)
  /\ held' = [held EXCEPT ![p] = FALSE]
  /\ UNCHANGED << users, stocks, opening, users_stocks, transactions, now, locks, faults, tx >>

\* const pc = await this.pool.connect()
Connect(p) ==
  /\ pc[p] = "connect"
  /\ held' = [held EXCEPT ![p] = TRUE]
  /\ pc' = [pc EXCEPT ![p] = IF IsTrade(call[p]) THEN "getUserPortfolio" ELSE "getUser"]
  /\ UNCHANGED << users, stocks, opening, users_stocks, transactions, now, locks, faults,
                  leaked, call, loc, tx, err, result, pre >>

\* const user = await this.daos.users.getUserPortfolio(pc, uid)
GetUserPortfolio(p) ==
  /\ pc[p] = "getUserPortfolio"
  /\ \E r \in getUserPortfolio(users, users_stocks, stocks, call[p].uid) :
       loc' = [loc EXCEPT ![p].user = IF r = NULL THEN NULL ELSE r.user]
  /\ Goto(p, "getStock")
  /\ UNCHANGED << users, stocks, opening, users_stocks, transactions, now, locks, faults,
                  leaked, call, tx, err, pre >>

\* const stock = await this.daos.stocks.getStock(pc, ticker); buyStock then
\* checks user, stock and the balance
GetStock(p) ==
  /\ pc[p] = "getStock"
  /\ LET c == call[p]
         user == loc[p].user
         stock == getStock(stocks, c.ticker)
     IN /\ loc' = [loc EXCEPT ![p].stock = stock]
        /\ IF c.op = "sellStock" THEN Goto(p, "getMostRecentStockHolding")
           ELSE IF user = NULL THEN Throw(p, UserNotFoundError(c.uid), TRUE)
           ELSE IF stock = NULL THEN Throw(p, StockNotFoundError(c.ticker), TRUE)
           ELSE IF ~buyAllowed(user, stock, c.n, c.useCredit)
                THEN Throw(p, InsufficientBalanceError(c.uid, user.balance,
                                                       cost(stock, c.n)), TRUE)
           ELSE Goto(p, "getMostRecentStockHolding")
  /\ UNCHANGED << users, stocks, opening, users_stocks, transactions, now, locks, faults,
                  leaked, call, tx, err, pre >>

\* const holding = await this.daos.users.getMostRecentStockHolding(pc, uid, ticker);
\* sellStock then checks user, stock and the held quantity
GetMostRecentStockHolding(p) ==
  /\ pc[p] = "getMostRecentStockHolding"
  /\ \E holding \in getMostRecentStockHolding(users_stocks, call[p].uid, call[p].ticker) :
       LET c == call[p]
           user == loc[p].user
           stock == loc[p].stock
       IN /\ loc' = [loc EXCEPT ![p].holding = holding]
          /\ IF c.op = "buyStock" THEN Goto(p, "BEGIN")
             ELSE IF user = NULL THEN Throw(p, UserNotFoundError(c.uid), TRUE)
             ELSE IF stock = NULL THEN Throw(p, StockNotFoundError(c.ticker), TRUE)
             ELSE IF sellRejected(holding, c.n)
                  THEN Throw(p, InsufficientStockQuantityError(
                                   c.uid, ownedQuantity(holding), c.n), TRUE)
             ELSE Goto(p, "BEGIN")
  /\ UNCHANGED << users, stocks, opening, users_stocks, transactions, now, locks, faults,
                  leaked, call, tx, err, pre >>

\* const fromUser = await this.daos.users.getUser(pc, fromUid), and the checks
\* that follow it without another read
GetUser(p) ==
  /\ pc[p] = "getUser"
  /\ LET c == call[p]
         fromUser == getUser(users, c.uid)
     IN /\ loc' = [loc EXCEPT ![p].user = fromUser]
        /\ IF fromUser = NULL THEN Throw(p, UserNotFoundError(c.uid), TRUE)
           ELSE IF c.op = "wireToUser" THEN Goto(p, "getDestUser")
           ELSE IF wireInsufficient(fromUser, c.n)
                THEN Throw(p, InsufficientBalanceError(c.uid, fromUser.balance, c.n), TRUE)
           ELSE Goto(p, "BEGIN")
  /\ UNCHANGED << users, stocks, opening, users_stocks, transactions, now, locks, faults,
                  leaked, call, tx, err, pre >>

\* const destUser = await this.daos.users.getUser(pc, destUid), and the checks
GetDestUser(p) ==
  /\ pc[p] = "getDestUser"
  /\ LET c == call[p]
         fromUser == loc[p].user
         destUser == getUser(users, c.dest)
     IN /\ loc' = [loc EXCEPT ![p].destUser = destUser]
        /\ IF destUser = NULL THEN Throw(p, UserNotFoundError(c.dest), TRUE)
           ELSE IF wireInsufficient(fromUser, c.n)
                THEN Throw(p, InsufficientBalanceError(c.uid, fromUser.balance, c.n), TRUE)
           ELSE Goto(p, "BEGIN")
  /\ UNCHANGED << users, stocks, opening, users_stocks, transactions, now, locks, faults,
                  leaked, call, tx, err, pre >>

CanLock(p, uid) == locks[uid] \in {"none", p}

RECURSIVE ApplyUpdates(_, _)
ApplyUpdates(tbl, ups) ==
  IF ups = <<>> THEN tbl
  ELSE ApplyUpdates(updateUser(tbl, Head(ups).uid, Head(ups).set), Tail(ups))

Unlock(p) == [u \in Uids |-> IF locks[u] = p THEN "none" ELSE locks[u]]

\* Committed without the log record: the record was not part of the transaction
Committed_WithoutLog(t) ==
  [users |-> ApplyUpdates(users, t.users),
   users_stocks |-> users_stocks \o t.users_stocks,
   transactions |-> transactions]

\* the tables after the open transaction t has committed
Committed(t) ==
  [users |-> ApplyUpdates(users, t.users),
   users_stocks |-> users_stocks \o t.users_stocks,
   transactions |-> transactions \o t.transactions]

\* a write statement on the connection of p: inside an open transaction its
\* rows stay invisible to the other connections until COMMIT, outside of one
\* the statement commits by itself
Write(p, w) ==
  IF tx[p].open
  THEN /\ tx' = [tx EXCEPT ![p] = [open |-> TRUE,
                                   users_stocks |-> @.users_stocks \o w.users_stocks,
                                   users |-> @.users \o w.users,
                                   transactions |-> @.transactions \o w.transactions]]
       /\ UNCHANGED << users, users_stocks, transactions >>
  ELSE /\ users' = Committed(w).users
       /\ users_stocks' = Committed(w).users_stocks
       /\ transactions' = Committed(w).transactions
       /\ UNCHANGED tx

\* the row lock of an UPDATE is held until the transaction ends
LockRow(p, uid) ==
  /\ CanLock(p, uid)
  /\ locks' = IF tx[p].open THEN [locks EXCEPT ![uid] = p] ELSE locks

\* Begin without the statement: the connection stays in autocommit mode
Begin_NoTransaction(p) ==
  /\ pc[p] = "BEGIN"
  /\ tx' = tx
  /\ Goto(p, IF IsTrade(call[p]) THEN "createStockHolding" ELSE "updateUser")
  /\ UNCHANGED << users, stocks, opening, users_stocks, transactions, now, locks, faults,
                  leaked, call, loc, err, pre >>

\* await pc.query('BEGIN')
Begin(p) ==
  /\ pc[p] = "BEGIN"
  /\ tx' = [tx EXCEPT ![p] = [NoTx EXCEPT !.open = TRUE]]
  /\ Goto(p, IF IsTrade(call[p]) THEN "createStockHolding" ELSE "updateUser")
  /\ UNCHANGED << users, stocks, opening, users_stocks, transactions, now, locks, faults,
                  leaked, call, loc, err, pre >>

\* newHolding = {uid, ticker, quantity: newQuantity, timestamp: Date.now()};
\* await this.daos.users.createStockHolding(pc, newHolding)
CreateStockHolding(p) ==
  /\ pc[p] = "createStockHolding"
  /\ \E t \in DateNow :
       LET c == call[p]
           newQuantity == IF c.op = "buyStock"
                          THEN buyNewQuantity(loc[p].holding, c.n)
                          ELSE sellNewQuantity(loc[p].holding, c.n)
           newHolding == [uid |-> c.uid, ticker |-> c.ticker,
                          quantity |-> newQuantity, timestamp |-> t]
       IN /\ now' = t
          /\ Write(p, [NoTx EXCEPT !.users_stocks = createStockHolding(<<>>, newHolding)])
  /\ Goto(p, "updateUser")
  /\ UNCHANGED << stocks, opening, locks, faults, leaked, call, loc, err, pre >>

\* the fields the operation passes to updateUser for its own user
UserFields(c, l) ==
  IF c.op = "buyStock"
    THEN [balance |-> buyNewBalance(l.user, l.stock, c.n),
          loan_balance |-> buyNewDebt(l.user, l.stock, c.n)]
  ELSE IF c.op = "sellStock"
    THEN [balance |-> sellNewBalance(l.user, l.stock, c.n)]
  ELSE [balance |-> wireNewFromBalance(l.user, c.n)]

\* UPDATE waits while another open transaction holds the row lock
\* await this.daos.users.updateUser(pc, uid, {...})
UpdateUser(p) ==
  /\ pc[p] = "updateUser"
  /\ LockRow(p, call[p].uid)
  /\ Write(p, [NoTx EXCEPT !.users =
                  <<[uid |-> call[p].uid, set |-> UserFields(call[p], loc[p])]>>])
  /\ Goto(p, IF call[p].op = "wireToUser" THEN "updateDestUser" ELSE "createTransaction")
  /\ UNCHANGED << stocks, opening, now, faults, leaked, call, loc, err, pre >>

\* await this.daos.users.updateUser(pc, destUid, {balance: destUser.balance + amount})
UpdateDestUser(p) ==
  /\ pc[p] = "updateDestUser"
  /\ LockRow(p, call[p].dest)
  /\ Write(p, [NoTx EXCEPT !.users =
                  <<[uid |-> call[p].dest,
                     set |-> [balance |-> wireNewDestBalance(loc[p].destUser, call[p].n)]]>>])
  /\ Goto(p, "createTransaction")
  /\ UNCHANGED << stocks, opening, now, faults, leaked, call, loc, err, pre >>

TransactionRecord(c, l, t) ==
  IF c.op = "buyStock" THEN buyRecord(c, l.user, l.stock, t)
  ELSE IF c.op = "sellStock" THEN sellRecord(c, l.stock, t)
  ELSE wireRecord(c, c.op = "wireToUser", t)

\* transactionRecord = {..., timestamp: Date.now()};
\* await this.daos.transactions.createTransaction(pc, transactionRecord)
CreateTransaction(p) ==
  /\ pc[p] = "createTransaction"
  /\ \E t \in DateNow :
       LET transactionRecord == TransactionRecord(call[p], loc[p], t)
       IN /\ now' = t
          /\ loc' = [loc EXCEPT ![p].record = transactionRecord]
          /\ Write(p, [NoTx EXCEPT !.transactions =
                                       createTransaction(<<>>, transactionRecord)])
  /\ Goto(p, "COMMIT")
  /\ UNCHANGED << stocks, opening, locks, faults, leaked, call, err, pre >>

\* RolledBack that keeps the writes: the statements were not in a transaction
RolledBack_KeepsWrites(t) ==
  [users |-> ApplyUpdates(users, t.users),
   users_stocks |-> users_stocks \o t.users_stocks,
   transactions |-> transactions \o t.transactions]

\* the tables after the open transaction t has been rolled back
RolledBack(t) ==
  [users |-> users, users_stocks |-> users_stocks, transactions |-> transactions]

EndTx(p, after) ==
  /\ users' = after.users
  /\ users_stocks' = after.users_stocks
  /\ transactions' = after.transactions
  /\ tx' = [tx EXCEPT ![p] = NoTx]
  /\ locks' = Unlock(p)

\* await pc.query('COMMIT'); return transactionRecord; finally pc.release()
Commit(p) ==
  /\ pc[p] = "COMMIT"
  /\ EndTx(p, Committed(tx[p]))
  /\ Throw(p, Ok(loc[p].record), TRUE)
  /\ UNCHANGED << stocks, opening, now, faults, leaked, call, loc, err, pre >>

\* catch (err) { await pc.query('ROLLBACK'); throw err } finally { pc.release() }
Rollback(p) ==
  /\ pc[p] = "ROLLBACK"
  /\ EndTx(p, RolledBack(tx[p]))
  /\ Throw(p, err[p], TRUE)
  /\ UNCHANGED << stocks, opening, now, faults, leaked, call, loc, err, pre >>

ReadSteps == {"getUserPortfolio", "getStock", "getMostRecentStockHolding",
              "getUser", "getDestUser"}
TrySteps == {"BEGIN", "createStockHolding", "updateUser", "updateDestUser",
             "createTransaction", "COMMIT"}

\* a read before the try block throws: the error leaves the operation at once
FailRead(p) ==
  /\ pc[p] \in ReadSteps
  /\ faults < MaxFaults
  /\ faults' = faults + 1
  /\ Throw(p, StorageError(pc[p]), FALSE)
  /\ UNCHANGED << users, stocks, opening, users_stocks, transactions, now, locks,
                  leaked, call, loc, tx, err, pre >>

\* a statement of the try block throws: control passes to the catch block
FailTry(p) ==
  /\ pc[p] \in TrySteps
  /\ faults < MaxFaults
  /\ faults' = faults + 1
  /\ err' = [err EXCEPT ![p] = StorageError(pc[p])]
  /\ Goto(p, "ROLLBACK")
  /\ UNCHANGED << users, stocks, opening, users_stocks, transactions, now, locks,
                  leaked, call, loc, tx, pre >>

\* ROLLBACK itself throws (the connection that failed the statement is gone):
\* its error replaces the caught one, finally releases the connection, and the
\* server drops the transaction with the session
FailRollback(p) ==
  /\ pc[p] = "ROLLBACK"
  /\ EndTx(p, RolledBack(tx[p]))
  /\ Throw(p, StorageError("ROLLBACK"), TRUE)
  /\ UNCHANGED << stocks, opening, now, faults, leaked, call, loc, err, pre >>

\* the uid whose row lock the caller is waiting for
WaitsFor(p) ==
  IF pc[p] = "updateUser" THEN call[p].uid
  ELSE IF pc[p] = "updateDestUser" THEN call[p].dest
  ELSE "z"

Blocked(p) ==
  pc[p] \in {"updateUser", "updateDestUser"} /\ ~CanLock(p, WaitsFor(p))

\* two transactions wait for each other's row lock: the server aborts one
\* UPDATE with a deadlock error
DeadlockAbort(p) ==
  /\ Blocked(p)
  /\ \E q \in Procs \ {p} : Blocked(q) /\ locks[WaitsFor(p)] = q /\ locks[WaitsFor(q)] = p
  /\ err' = [err EXCEPT ![p] = StorageError(pc[p])]
  /\ Goto(p, "ROLLBACK")
  /\ UNCHANGED << users, stocks, opening, users_stocks, transactions, now, locks, faults,
                  leaked, call, loc, tx, pre >>

Step(p) ==
  \/ Connect(p)
  \/ GetUserPortfolio(p)
  \/ GetStock(p)
  \/ GetMostRecentStockHolding(p)
  \/ GetUser(p)
  \/ GetDestUser(p)
  \/ Begin(p)
  \/ CreateStockHolding(p)
  \/ UpdateUser(p)
  \/ UpdateDestUser(p)
  \/ CreateTransaction(p)
  \/ Commit(p)
  \/ Rollback(p)
  \/ FailRead(p)
  \/ FailTry(p)
  \/ FailRollback(p)

\* one caller, one operation at a time
Next ==
  \/ \E c \in Calls : CallSeq(c)
  \/ Step(SeqProc)
  \/ Return(SeqProc)

Spec == Init /\ [][Next]_vars

\* any number of operations in flight, interleaved at every await
NextConc ==
  \/ \E p \in Procs : \E c \in ConcCalls : CallConc(p, c)
  \/ \E p \in Procs : Step(p)
  \/ \E p \in Procs : DeadlockAbort(p)

SpecConc == Init /\ [][NextConc]_vars

\* ------------------------------------------------- repository operations
\* the stores of Init, and one in which a bought and a sold snapshot carry the
\* same Date.now() value
RepoStores ==
  { [users |-> s.users, users_stocks |-> s.users_stocks, stocks |-> InitStocks] :
      s \in InitStores }
  \cup
  { [users |-> <<[uid |-> "a", balance |-> 3, credit_limit |-> 2, loan_balance |-> 0]>>,
     users_stocks |-> <<[uid |-> "a", ticker |-> "X", quantity |-> 1, timestamp |-> 1],
                        [uid |-> "a", ticker |-> "X", quantity |-> 0, timestamp |-> 1]>>,
     stocks |-> InitStocks],
    \* a second stock, and a user who holds both: X worth 2, Q worth 3
    [users |-> <<[uid |-> "a", balance |-> 3, credit_limit |-> 2, loan_balance |-> 0]>>,
     users_stocks |-> <<[uid |-> "a", ticker |-> "X", quantity |-> 1, timestamp |-> 0],
                        [uid |-> "a", ticker |-> "Q", quantity |-> 3, timestamp |-> 1]>>,
     stocks |-> <<[ticker |-> "X", price |-> 2], [ticker |-> "Q", price |-> 1]>>] }

InitRepo ==
  /\ \E s \in RepoStores :
       /\ users = s.users
       /\ opening = s.users
       /\ users_stocks = s.users_stocks
       /\ stocks = s.stocks
       /\ pre = [p \in Procs |-> [users |-> s.users, users_stocks |-> s.users_stocks,
                                  transactions |-> <<>>, stocks |-> s.stocks]]
  /\ transactions = <<>>
  /\ now = 1
  /\ locks = [u \in Uids |-> "none"]
  /\ faults = 0
  /\ leaked = 0
  /\ pc = [p \in Procs |-> "idle"]
  /\ call = [p \in Procs |-> NoCall]
  /\ loc = [p \in Procs |-> NoLoc]
  /\ tx = [p \in Procs |-> NoTx]
  /\ err = [p \in Procs |-> NoResult]
  /\ held = [p \in Procs |-> FALSE]
  /\ result = [p \in Procs |-> NoResult]

\* Partial<User> and Partial<Stock> arguments; EmptyFields is {}
EmptyFields == [f \in {} |-> 0]
UserPatches == {EmptyFields, [balance |-> 5]}
StockPatches == {EmptyFields, [price |-> 3]}

\* const newUser: User = {uid: interaction.user.id, balance: 1000}
NewUser(uid) == [uid |-> uid, balance |-> 1000]

RepoCalls ==
  [op : {"createUser"}, user : {NewUser(u) : u \in {"a", "z"}}]
  \cup [op : {"start"}, uid : {"a", "z"}]
  \cup [op : {"updateUser"}, uid : {"a", "z"}, fields : UserPatches]
  \cup [op : {"updateStock"}, ticker : Tickers, fields : StockPatches]
  \cup [op : {"deleteStock"}, ticker : Tickers]
  \cup [op : {"getUserPortfolio"}, uid : Uids]
  \cup [op : {"getStock"}, ticker : Tickers]
  \cup [op : {"createStock"}, stock : {[ticker |-> "Q", price |-> 1]}]
  \cup [op : {"getAllStocks"}]

\* the operations of StockService, which take a connection of the pool
StockOps == {"getStock", "createStock", "updateStock", "getAllStocks"}

RepoLabel(op) ==
  IF op = "start" THEN "start.getUser"
  ELSE IF op \in StockOps THEN "stock.connect"
  ELSE "repo." \o op

\* a caller invokes a repository operation or the start command
RepoCall(p, c) ==
  /\ pc[p] = "idle"
  /\ pc' = [pc EXCEPT ![p] = RepoLabel(c.op)]
  /\ call' = [call EXCEPT ![p] = c]
  /\ pre' = [pre EXCEPT ![p] = store]
  /\ UNCHANGED << users, stocks, opening, users_stocks, transactions, now, locks, faults,
                  leaked, loc, tx, err, held, result >>

\* the promise of the call settles with r
Settle(p, r) ==
  /\ result' = [result EXCEPT ![p] = r]
  /\ pc' = [pc EXCEPT ![p] = "done"]

\* INSERT INTO users: when a row of the uid exists, the statement either
\* violates a unique constraint of the table and throws the store's error, or
\* (the table has no such constraint) inserts a second row
RepoCreateUser(p) ==
  /\ pc[p] = "repo.createUser"
  /\ LET user == IF call[p].op = "start" THEN NewUser(call[p].uid) ELSE call[p].user
     IN IF getUser(users, user.uid) = NULL
        THEN /\ users' = createUser(users, user)
             /\ Settle(p, Returned(NULL))
        ELSE \/ /\ users' = users
                /\ Settle(p, StorageError("createUser"))
             \/ /\ users' = createUser(users, user)
                /\ Settle(p, Returned(NULL))
  /\ UNCHANGED << stocks, opening, users_stocks, transactions, now, locks, faults,
                  leaked, call, loc, tx, err, held, pre >>

\* UPDATE users SET <fields> WHERE uid = $n; with no field the statement sent
\* is "UPDATE users SET  WHERE uid = $1", which the store rejects
RepoUpdateUser(p) ==
  /\ pc[p] = "repo.updateUser"
  /\ IF DOMAIN call[p].fields = {}
     THEN /\ users' = users
          /\ Settle(p, StorageError("updateUser"))
     ELSE /\ users' = updateUser(users, call[p].uid, call[p].fields)
          /\ Settle(p, Returned(NULL))
  /\ UNCHANGED << stocks, opening, users_stocks, transactions, now, locks, faults,
                  leaked, call, loc, tx, err, held, pre >>

\* StockService: const pc = await this.pool.connect()
StockConnect(p) ==
  /\ pc[p] = "stock.connect"
  /\ held' = [held EXCEPT ![p] = TRUE]
  /\ pc' = [pc EXCEPT ![p] = "repo." \o call[p].op]
  /\ UNCHANGED << users, stocks, opening, users_stocks, transactions, now, locks, faults,
                  leaked, call, loc, tx, err, result, pre >>

\* StockService: const res = await this.daos.stocks.x(pc, ...); pc.release();
\* return res; when the awaited call throws, the release is not reached
StockReturn(p, r) ==
  /\ Settle(p, r)
  /\ held' = [held EXCEPT ![p] = IF r.kind = "ok" THEN FALSE ELSE held[p]]

\* if (Object.keys(stock).length === 0) throw new Error("No fields to update");
\* UPDATE stocks SET <fields> WHERE ticker = $n
RepoUpdateStock(p) ==
  /\ pc[p] = "repo.updateStock"
  /\ IF DOMAIN call[p].fields = {}
     THEN /\ stocks' = stocks
          /\ StockReturn(p, NoFieldsError)
     ELSE /\ stocks' = updateStock(stocks, call[p].ticker, call[p].fields)
          /\ StockReturn(p, Returned(NULL))
  /\ UNCHANGED << users, opening, users_stocks, transactions, now, locks, faults,
                  leaked, call, loc, tx, err, pre >>

\* SELECT * FROM stocks WHERE ticker = $1
RepoGetStock(p) ==
  /\ pc[p] = "repo.getStock"
  /\ StockReturn(p, Returned(getStock(stocks, call[p].ticker)))
  /\ UNCHANGED << users, stocks, opening, users_stocks, transactions, now, locks, faults,
                  leaked, call, loc, tx, err, pre >>

\* INSERT INTO stocks: as for users, a row of the same ticker either makes
\* the statement throw the store's error or gets a second row beside it
RepoCreateStock(p) ==
  /\ pc[p] = "repo.createStock"
  /\ IF getStock(stocks, call[p].stock.ticker) = NULL
     THEN /\ stocks' = createStock(stocks, call[p].stock)
          /\ StockReturn(p, Returned(NULL))
     ELSE \/ /\ stocks' = stocks
             /\ StockReturn(p, StorageError("createStock"))
          \/ /\ stocks' = createStock(stocks, call[p].stock)
             /\ StockReturn(p, Returned(NULL))
  /\ UNCHANGED << users, opening, users_stocks, transactions, now, locks, faults,
                  leaked, call, loc, tx, err, pre >>

\* SELECT * FROM stocks
RepoGetAllStocks(p) ==
  /\ pc[p] = "repo.getAllStocks"
  /\ StockReturn(p, Returned(getAllStocks(stocks)))
  /\ UNCHANGED << users, stocks, opening, users_stocks, transactions, now, locks, faults,
                  leaked, call, loc, tx, err, pre >>

\* the statement of a StockService operation throws a storage error
StockFail(p) ==
  /\ call[p].op \in StockOps
  /\ pc[p] = "repo." \o call[p].op
  /\ faults < MaxFaults
  /\ faults' = faults + 1
  /\ StockReturn(p, StorageError(call[p].op))
  /\ UNCHANGED << users, stocks, opening, users_stocks, transactions, now, locks,
                  leaked, call, loc, tx, err, pre >>

\* DELETE FROM stocks WHERE ticker = $1
RepoDeleteStock(p) ==
  /\ pc[p] = "repo.deleteStock"
  /\ stocks' = deleteStock(stocks, call[p].ticker)
  /\ Settle(p, Returned(NULL))
  /\ UNCHANGED << users, opening, users_stocks, transactions, now, locks, faults,
                  leaked, call, loc, tx, err, held, pre >>

\* the profile command: service.users.getUserPortfolio(uid)
RepoGetUserPortfolio(p) ==
  /\ pc[p] = "repo.getUserPortfolio"
  /\ \E r \in getUserPortfolio(users, users_stocks, stocks, call[p].uid) :
       Settle(p, Returned(r))
  /\ UNCHANGED << users, stocks, opening, users_stocks, transactions, now, locks, faults,
                  leaked, call, loc, tx, err, held, pre >>

\* the start command: const user = await service.users.getUser(uid);
\* if (!user) { ... await service.users.createUser(newUser) }
StartGetUser(p) ==
  /\ pc[p] = "start.getUser"
  /\ IF getUser(users, call[p].uid) = NULL
     THEN /\ pc' = [pc EXCEPT ![p] = "repo.createUser"]
          /\ UNCHANGED result
     ELSE Settle(p, Returned(NULL))
  /\ UNCHANGED << users, stocks, opening, users_stocks, transactions, now, locks, faults,
                  leaked, call, loc, tx, err, held, pre >>

RepoStep(p) ==
  \/ RepoCreateUser(p)
  \/ RepoUpdateUser(p)
  \/ StockConnect(p)
  \/ RepoUpdateStock(p)
  \/ RepoGetStock(p)
  \/ RepoCreateStock(p)
  \/ RepoGetAllStocks(p)
  \/ StockFail(p)
  \/ RepoDeleteStock(p)
  \/ RepoGetUserPortfolio(p)
  \/ StartGetUser(p)

\* two callers, one repository operation or start command each, interleaved
NextRepo ==
  \/ \E p \in Procs : \E c \in RepoCalls : RepoCall(p, c)
  \/ \E p \in Procs : RepoStep(p)

SpecRepo == InitRepo /\ [][NextRepo]_vars


\* ================================================================ claims
Done(p) == pc[p] = "done"
Succeeded(p) == Done(p) /\ result[p].kind = "ok"
Faulted(p) == result[p].kind = "StorageError"

\* the call of p names a user and a stock that had rows when it started
UserExisted(p) == getUser(pre[p].users, call[p].uid) # NULL
StockExisted(p) == getStock(pre[p].stocks, call[p].ticker) # NULL
UserBefore(p) == getUser(pre[p].users, call[p].uid)
UserAfter(p) == getUser(users, call[p].uid)
PriceBefore(p) == getStock(pre[p].stocks, call[p].ticker).price

TablesAsBefore(p) ==
  /\ users = pre[p].users
  /\ users_stocks = pre[p].users_stocks
  /\ transactions = pre[p].transactions

RECURSIVE SumBalances(_)
SumBalances(tbl) ==
  IF tbl = <<>> THEN 0 ELSE Head(tbl).balance + SumBalances(Tail(tbl))

\* C1: after a successful buyStock or sellStock the stored balance is the
\* balance before plus the record's balance_change, and the stored
\* loan_balance is the one before plus the record's credit_change (which a
\* sell leaves as it was).
C1_BalanceFollowsRecord ==
  \A p \in Procs :
    (Succeeded(p) /\ IsTrade(call[p])) =>
      /\ UserAfter(p).balance = UserBefore(p).balance + result[p].record.balance_change
      /\ UserAfter(p).loan_balance
           = UserBefore(p).loan_balance + result[p].record.credit_change
      /\ call[p].op = "sellStock" => UserAfter(p).loan_balance = UserBefore(p).loan_balance

\* a buy that drew credit has succeeded
C1_Witness ==
  \E p \in Procs :
    /\ Succeeded(p) /\ call[p].op = "buyStock"
    /\ result[p].record.credit_change > 0
    /\ UserAfter(p).loan_balance > UserBefore(p).loan_balance

\* C2: for an existing user and stock and cost = price * q, buyStock succeeds
\* iff balance >= cost, or useCredit and balance + max(credit_limit -
\* loan_balance, 0) > cost (strictly); the credit drawn is 0 when balance >=
\* cost and cost - balance otherwise; in every other case it throws
\* InsufficientBalanceError(uid, balance, cost).  (A call ended by a storage
\* failure is neither.)
C2_BuyDecision ==
  \A p \in Procs :
    (Done(p) /\ call[p].op = "buyStock" /\ UserExisted(p) /\ StockExisted(p)
       /\ ~Faulted(p)) =>
      LET u == UserBefore(p)
          cst == PriceBefore(p) * call[p].n
          avail == IF u.credit_limit - u.loan_balance > 0
                   THEN u.credit_limit - u.loan_balance ELSE 0
          funded == u.balance >= cst \/ (call[p].useCredit /\ u.balance + avail > cst)
      IN /\ funded <=> result[p].kind = "ok"
         /\ funded => result[p].record.credit_change
                        = (IF u.balance >= cst THEN 0 ELSE cst - u.balance)
         /\ ~funded => result[p] = [kind |-> "InsufficientBalanceError", uid |-> call[p].uid,
                                    balance |-> u.balance, required |-> cst]

\* a buy on credit was refused because balance plus available credit was
\* exactly the cost
C2_Witness ==
  \E p \in Procs :
    /\ Done(p) /\ call[p].op = "buyStock" /\ call[p].useCredit
    /\ UserExisted(p) /\ StockExisted(p)
    /\ result[p].kind = "InsufficientBalanceError"
    /\ UserBefore(p).credit_limit > UserBefore(p).loan_balance
    /\ UserBefore(p).balance + UserBefore(p).credit_limit - UserBefore(p).loan_balance
         = PriceBefore(p) * call[p].n

\* C3: in every state reached by any interleaving of the four operations,
\* every user has loan_balance <= credit_limit.
C3_LoanWithinLimit ==
  \A i \in DOMAIN users : users[i].loan_balance <= users[i].credit_limit

\* two buys on credit of the same user, both validated against the same user
\* row before either committed, have both committed
C3_Witness ==
  \E p, q \in Procs :
    /\ p # q /\ Succeeded(p) /\ Succeeded(q)
    /\ call[p].op = "buyStock" /\ call[q].op = "buyStock" /\ call[p].uid = call[q].uid
    /\ result[p].record.credit_change > 0 /\ result[q].record.credit_change > 0
    /\ loc[p].user = loc[q].user

\* the holding the operation of p read, by quantity (0 when there was none)
OwnedBefore(p) ==
  { ownedQuantity(h) :
      h \in getMostRecentStockHolding(pre[p].users_stocks, call[p].uid, call[p].ticker) }

\* C4: after a successful trade the latest holding snapshot of (uid, ticker)
\* has the quantity before plus the bought, or minus the sold, quantity, and
\* no snapshot ever written has a negative quantity.
C4_HoldingFollowsTrade ==
  /\ \A p \in Procs :
       (Succeeded(p) /\ IsTrade(call[p])) =>
         \A h \in getMostRecentStockHolding(users_stocks, call[p].uid, call[p].ticker) :
           /\ h # NULL
           /\ \E q0 \in OwnedBefore(p) :
                h.quantity = (IF call[p].op = "buyStock" THEN q0 + call[p].n
                                                       ELSE q0 - call[p].n)
  /\ \A i \in DOMAIN users_stocks : users_stocks[i].quantity >= 0

\* C5: for an existing user and stock, sellStock of more than the latest held
\* quantity, or with no holding, throws InsufficientStockQuantityError(uid,
\* owned, requested), owned being the held quantity (0 without a holding), and
\* leaves users, holdings and the log as they were.
C5_OversellRejected ==
  \A p \in Procs :
    (Done(p) /\ call[p].op = "sellStock" /\ UserExisted(p) /\ StockExisted(p)
       /\ \/ HoldingsOf(pre[p].users_stocks, call[p].uid, call[p].ticker) = {}
          \/ \A q0 \in OwnedBefore(p) : call[p].n > q0) =>
      /\ TablesAsBefore(p)
      /\ result[p].kind \in {"InsufficientStockQuantityError", "StorageError"}
      /\ ~Faulted(p) =>
           \E q0 \in OwnedBefore(p) :
             result[p] = [kind |-> "InsufficientStockQuantityError", uid |-> call[p].uid,
                          owned |-> q0, requested |-> call[p].n]

\* a sell of more than the positive quantity held was refused
C5_Witness ==
  \E p \in Procs :
    /\ Done(p) /\ call[p].op = "sellStock"
    /\ result[p].kind = "InsufficientStockQuantityError"
    /\ result[p].owned > 0 /\ result[p].requested > result[p].owned

\* C6: for an existing user and stock with balance < price * quantity,
\* buyStock without credit throws InsufficientBalanceError and writes nothing.
C6_UnfundedBuyRejected ==
  \A p \in Procs :
    (Done(p) /\ call[p].op = "buyStock" /\ ~call[p].useCredit
       /\ UserExisted(p) /\ StockExisted(p)
       /\ UserBefore(p).balance < PriceBefore(p) * call[p].n) =>
      /\ TablesAsBefore(p)
      /\ result[p].kind \in {"InsufficientBalanceError", "StorageError"}
      /\ tx[p] = NoTx

\* a buy without credit was refused although credit was available
C6_Witness ==
  \E p \in Procs :
    /\ Done(p) /\ call[p].op = "buyStock" /\ ~call[p].useCredit
    /\ result[p].kind = "InsufficientBalanceError"
    /\ UserBefore(p).balance + UserBefore(p).credit_limit - UserBefore(p).loan_balance
         > result[p].required

\* C7: a successful wireToUser changes the source's balance by -amount and the
\* destination's by +amount, so the two changes add up to 0.
C7_WireConserves ==
  \A p \in Procs :
    (Succeeded(p) /\ call[p].op = "wireToUser") =>
      LET dSource == getUser(users, call[p].uid).balance
                       - getUser(pre[p].users, call[p].uid).balance
          dDest == getUser(users, call[p].dest).balance
                     - getUser(pre[p].users, call[p].dest).balance
      IN dSource = -call[p].n /\ dDest = call[p].n /\ dSource + dDest = 0

\* C8: a successful wireToEntity lowers the source's balance by amount and
\* changes no other user's row, so the sum of all balances falls by amount,
\* also when the destination names an existing user.
C8_EntityWireDebitsSource ==
  \A p \in Procs :
    (Succeeded(p) /\ call[p].op = "wireToEntity") =>
      /\ UserAfter(p).balance = UserBefore(p).balance - call[p].n
      /\ \A i \in DOMAIN users :
           users[i].uid # call[p].uid => users[i] = pre[p].users[i]
      /\ SumBalances(users) = SumBalances(pre[p].users) - call[p].n

\* a positive amount was wired to an entity whose identifier is a user's
C8_Witness ==
  \E p \in Procs :
    /\ Succeeded(p) /\ call[p].op = "wireToEntity"
    /\ call[p].n > 0 /\ call[p].dest # call[p].uid
    /\ getUser(users, call[p].dest) # NULL

\* the callers whose operation returns a record in this step
Returning == { p \in Procs : pc[p] # "done" /\ pc'[p] = "done" /\ result'[p].kind = "ok" }

C10_FailedPhaseRolledBack ==
  \A p \in Procs :
    (Done(p) /\ err[p].kind = "StorageError") =>
      /\ result[p].kind = "StorageError"
      /\ TablesAsBefore(p)
      /\ tx[p] = NoTx

\* COMMIT threw after the holding, the user row and the record were written
C10_Witness ==
  \E p \in Procs :
    /\ Done(p) /\ err[p] = StorageError("COMMIT")
    /\ loc[p].record # NULL

\* C11: every operation releases the connection it acquired on every exit
\* path, also when a read of the validation phase throws: no finished
\* operation still holds a connection.
C11_ConnectionReleased ==
  \A p \in Procs : Done(p) => ~held[p]

\* both calls started from the same tables: neither saw the other's commit
Concurrent(p, q) == p # q /\ pre[p] = pre[q]

\* what the operation of p takes from its user's balance
Debit(p) == IF call[p].op = "buyStock" THEN PriceBefore(p) * call[p].n ELSE call[p].n

AvailableBefore(p) ==
  IF UserBefore(p).credit_limit > UserBefore(p).loan_balance
  THEN UserBefore(p).credit_limit - UserBefore(p).loan_balance ELSE 0

\* C12: two concurrent operations of the same user never both commit against
\* the same stale read: two sells of more than the owned quantity together, or
\* two buys or wires of more than the balance (plus the available credit,
\* where credit is used) together, never both succeed.
C12_NoStaleDoubleCommit ==
  \A p, q \in Procs :
    (Concurrent(p, q) /\ Succeeded(p) /\ Succeeded(q) /\ call[p].uid = call[q].uid) =>
      /\ (call[p].op = "sellStock" /\ call[q].op = "sellStock"
            /\ call[p].ticker = call[q].ticker) =>
           \E q0 \in OwnedBefore(p) : call[p].n + call[q].n <= q0
      /\ (call[p].op # "sellStock" /\ call[q].op # "sellStock") =>
           Debit(p) + Debit(q)
             <= UserBefore(p).balance
                  + (IF call[p].useCredit \/ call[q].useCredit
                     THEN AvailableBefore(p) ELSE 0)

\* the quantity a successful trade adds to the holding
Traded(p) == IF call[p].op = "buyStock" THEN call[p].n ELSE -call[p].n

\* C13: after two successful trades of one user on one ticker, in any
\* interleaving, the latest holding quantity is the quantity before both plus
\* the bought and minus the sold quantities.
C13_NoLostHoldingUpdate ==
  \A p, q \in Procs :
    (p # q /\ Succeeded(p) /\ Succeeded(q) /\ IsTrade(call[p]) /\ IsTrade(call[q])
       /\ call[p].uid = call[q].uid /\ call[p].ticker = call[q].ticker
       /\ Len(pre[p].users_stocks) <= Len(pre[q].users_stocks)) =>
      \A h \in getMostRecentStockHolding(users_stocks, call[p].uid, call[p].ticker) :
        \E q0 \in OwnedBefore(p) : h.quantity = q0 + Traded(p) + Traded(q)

\* C16: when a statement of the atomic phase has thrown, the caller receives
\* that same error, after the rollback and the release of the connection,
\* also when ROLLBACK itself throws.
C16_OriginalErrorPropagated ==
  \A p \in Procs :
    (Done(p) /\ err[p].kind = "StorageError") =>
      /\ result[p] = err[p]
      /\ ~held[p]
      /\ tx[p] = NoTx

\* C17: wireToUser checks in this order: a missing source user gives
\* UserNotFoundError(fromUid); otherwise a missing destination user gives
\* UserNotFoundError(destUid), also when the balance is insufficient; otherwise
\* balance < amount gives InsufficientBalanceError(fromUid, balance, amount);
\* otherwise (a wire of the whole balance included) it succeeds. A failed
\* call changes nothing.
C17_WireToUserCheckOrder ==
  \A p \in Procs :
    (Done(p) /\ call[p].op = "wireToUser" /\ ~Faulted(p)) =>
      LET fromUser == getUser(pre[p].users, call[p].uid)
          destUser == getUser(pre[p].users, call[p].dest)
      IN /\ IF fromUser = NULL THEN result[p] = UserNotFoundError(call[p].uid)
            ELSE IF destUser = NULL THEN result[p] = UserNotFoundError(call[p].dest)
            ELSE IF fromUser.balance < call[p].n
                 THEN result[p] = InsufficientBalanceError(
                                     call[p].uid, fromUser.balance, call[p].n)
            ELSE /\ result[p].kind = "ok"
                 /\ result[p].record
                      = wireRecord(call[p], TRUE, result[p].record.timestamp)
         /\ result[p].kind # "ok" => TablesAsBefore(p) /\ tx[p] = NoTx

\* a wire to a missing destination was refused for the destination although
\* the source could not have paid it
C17_Witness ==
  \E p \in Procs :
    /\ Done(p) /\ call[p].op = "wireToUser"
    /\ UserExisted(p) /\ UserBefore(p).balance < call[p].n
    /\ result[p] = UserNotFoundError(call[p].dest)
    /\ TablesAsBefore(p)

\* no operation is in flight
Quiescent == \A p \in Procs : pc[p] \in {"idle", "done"}

\* what the log says was added to the balance of uid: the balance_change of
\* the records of uid plus the amounts of the wires sent to the user uid
RECURSIVE LoggedChange(_, _)
LoggedChange(log, uid) ==
  IF log = <<>> THEN 0
  ELSE LET r == Head(log)
       IN (IF r.uid = uid THEN r.balance_change ELSE 0)
          + (IF r.type = "wire" /\ r.is_destination_user /\ r.destination = uid
             THEN -r.balance_change ELSE 0)
          + LoggedChange(Tail(log), uid)

\* C14: whenever no operation is in flight, the balance of every user is the
\* initial balance plus the balance_change of the user's log records plus the
\* amounts of the wire records that name the user as destination user.
C14_BalanceReconstructible ==
  Quiescent =>
    \A i \in 1..Len(users) :
      users[i].balance
        = getUser(opening, users[i].uid).balance + LoggedChange(transactions, users[i].uid)

\* the user-row changes of the operation of p
UserChanges(p) ==
  <<[uid |-> call[p].uid, set |-> UserFields(call[p], loc[p])]>>
  \o (IF call[p].op = "wireToUser"
      THEN <<[uid |-> call[p].dest,
              set |-> [balance |-> wireNewDestBalance(loc[p].destUser, call[p].n)]]>>
      ELSE <<>>)

\* the step makes the whole write set of the operation of p visible at once
AllWritesAppear(p) ==
  /\ transactions' = Append(transactions, result'[p].record)
  /\ users' = ApplyUpdates(users, UserChanges(p))
  /\ IF IsTrade(call[p])
     THEN /\ Len(users_stocks') = Len(users_stocks) + 1
          /\ SubSeq(users_stocks', 1, Len(users_stocks)) = users_stocks
          /\ LET h == users_stocks'[Len(users_stocks')]
             IN /\ h.uid = call[p].uid /\ h.ticker = call[p].ticker
                /\ h.quantity = result'[p].record.quantity * (IF call[p].op = "buyStock" THEN 1 ELSE -1)
                                  + ownedQuantity(loc[p].holding)
     ELSE users_stocks' = users_stocks

\* C15: the writes of a successful operation become visible together: a step
\* either leaves the three tables as they are, or it is the COMMIT of one
\* operation and shows its holding snapshot, its user-row changes and its log
\* record at once, so no reader sees some of them without the others.
C15_WritesVisibleTogether ==
  [][ IF Returning = {}
      THEN UNCHANGED << users, users_stocks, transactions >>
      ELSE \E p \in Returning : AllWritesAppear(p) ]_vars

\* an operation has written its snapshot and its user row and not yet its log
\* record, another caller is about to read, and the tables show none of it
C15_Witness ==
  \E p, q \in Procs :
    /\ p # q
    /\ pc[p] = "createTransaction" /\ IsTrade(call[p])
    /\ tx[p].users_stocks # <<>> /\ tx[p].users # <<>>
    /\ pc[q] \in ReadSteps
    /\ call[q].uid = call[p].uid
    /\ users = pre[p].users /\ users_stocks = pre[p].users_stocks

\* the repository statement of p runs in this step
Settles(p, op) == call[p].op = op /\ pc[p] = "repo." \o op /\ pc'[p] = "done"

\* C18: a sparse update with no field, on the user repository or on the stock
\* repository, fails with the empty-update error raised before a statement is
\* sent (the only such error of the code is the one of updateStock), and
\* leaves the rows as they are.
C18_EmptyUpdateRefused ==
  [][ \A p \in Procs :
        ((Settles(p, "updateUser") \/ Settles(p, "updateStock"))
           /\ DOMAIN call[p].fields = {}) =>
          /\ result'[p] = NoFieldsError
          /\ users' = users /\ stocks' = stocks ]_vars

\* the rows of uid in the users table
UserRows(tbl, uid) == { i \in DOMAIN tbl : tbl[i].uid = uid }

\* C19: createUser on an identifier that has a row fails with
\* DuplicateUserError and leaves the row as it is, so after any interleaving of
\* create calls and start commands the table has at most one row for each
\* identifier.
C19_DuplicateUserRefused ==
  [][ /\ \A uid \in Uids : Cardinality(UserRows(users', uid)) <= 1
      /\ \A p \in Procs :
           (pc[p] = "repo.createUser" /\ pc'[p] = "done"
              /\ UserRows(users, IF call[p].op = "start" THEN call[p].uid
                                 ELSE call[p].user.uid) # {}) =>
             /\ result'[p].kind = "DuplicateUserError"
             /\ users' = users ]_vars

\* the snapshot of row k is the one of the greatest timestamp of its user and
\* ticker, and its quantity is positive
LatestPositive(us_tbl, k) ==
  /\ us_tbl[k].quantity > 0
  /\ \A j \in DOMAIN us_tbl :
       (us_tbl[j].uid = us_tbl[k].uid /\ us_tbl[j].ticker = us_tbl[k].ticker)
         => us_tbl[j].timestamp <= us_tbl[k].timestamp

\* the portfolio entry e shows the snapshot of row k
ShowsSnapshot(e, us_tbl, k) ==
  /\ "quantity" \in DOMAIN e /\ e.quantity = us_tbl[k].quantity
  /\ "timestamp" \in DOMAIN e /\ e.timestamp = us_tbl[k].timestamp
  /\ "uid" \in DOMAIN e /\ e.uid = us_tbl[k].uid
  /\ "ticker" \in DOMAIN e => e.ticker = us_tbl[k].ticker

\* C20: getUserPortfolio(uid) returns null exactly when the user has no row;
\* otherwise every entry of its list is, for its ticker, the snapshot of the
\* greatest timestamp, and that snapshot has a quantity > 0: the list is empty
\* when the user owns nothing, and a positive snapshot is not listed once a
\* snapshot of a greater timestamp exists.
C20_PortfolioShowsLatestPositive ==
  [][ \A p \in Procs :
        Settles(p, "getUserPortfolio") =>
          LET r == result'[p].value
          IN /\ r = NULL <=> UserRows(users, call[p].uid) = {}
             /\ r # NULL =>
                  \A n \in DOMAIN r.portfolio :
                    \E k \in DOMAIN users_stocks :
                      /\ users_stocks[k].uid = call[p].uid
                      /\ ShowsSnapshot(r.portfolio[n], users_stocks, k)
                      /\ LatestPositive(users_stocks, k) ]_vars

\* a user whose latest snapshot has quantity 0 and who has an older positive
\* snapshot was given an empty list
C20_Witness ==
  \E p \in Procs :
    /\ Done(p) /\ call[p].op = "getUserPortfolio"
    /\ result[p].kind = "ok" /\ result[p].value # NULL
    /\ result[p].value.portfolio = <<>>
    /\ \E k, j \in DOMAIN users_stocks :
         /\ users_stocks[k].uid = call[p].uid /\ users_stocks[j].uid = call[p].uid
         /\ users_stocks[k].ticker = users_stocks[j].ticker
         /\ users_stocks[k].quantity > 0 /\ users_stocks[j].quantity = 0
         /\ users_stocks[k].timestamp < users_stocks[j].timestamp
    /\ getStock(stocks, "X") # NULL /\ getStock(pre[p].stocks, "X") # NULL

\* the entry has a price
Priced(e) == "price" \in DOMAIN e

\* C21: the holdings of a returned portfolio are in the order of price *
\* quantity descending, and a holding that has no price stands after every
\* priced holding of positive value.
C21_PortfolioOrdered ==
  [][ \A p \in Procs :
        (Settles(p, "getUserPortfolio") /\ result'[p].value # NULL) =>
          LET l == result'[p].value.portfolio
          IN \A a, b \in DOMAIN l :
               a < b =>
                 /\ (Priced(l[a]) /\ Priced(l[b])) =>
                      l[a].price * l[a].quantity >= l[b].price * l[b].quantity
                 /\ ~(~Priced(l[a]) /\ Priced(l[b]) /\ l[b].price * l[b].quantity > 0) ]_vars

\* a portfolio of two priced holdings of different value was returned, the
\* one written first being worth less
C21_Witness ==
  \E p \in Procs :
    /\ Done(p) /\ call[p].op = "getUserPortfolio"
    /\ result[p].kind = "ok" /\ result[p].value # NULL
    /\ Len(result[p].value.portfolio) = 2
    /\ LET l == result[p].value.portfolio
       IN /\ Priced(l[1]) /\ Priced(l[2])
          /\ l[1].ticker = "Q" /\ l[2].ticker = "X"
          /\ l[1].price * l[1].quantity > l[2].price * l[2].quantity

\* C22: every record written is consistent in itself: a stock record has
\* total_price = price * quantity; a buy has credit_change >= 0,
\* balance_change <= 0 and credit_change - balance_change = total_price; a
\* sell has balance_change = total_price and credit_change = 0; a wire has
\* balance_change = -amount and is_destination_user exactly for wireToUser.
C22_RecordConsistent ==
  \A p \in Procs :
    Succeeded(p) =>
      LET r == result[p].record
      IN /\ \E i \in DOMAIN transactions : transactions[i] = r
         /\ IsTrade(call[p]) => r.total_price = r.price * r.quantity
         /\ call[p].op = "buyStock" =>
              /\ r.type = "buy"
              /\ r.credit_change >= 0 /\ r.balance_change <= 0
              /\ r.credit_change - r.balance_change = r.total_price
         /\ call[p].op = "sellStock" =>
              r.type = "sell" /\ r.balance_change = r.total_price /\ r.credit_change = 0
         /\ ~IsTrade(call[p]) =>
              /\ r.type = "wire" /\ r.balance_change = -call[p].n
              /\ r.is_destination_user <=> call[p].op = "wireToUser"

\* the entries of ticker in the portfolios getUserPortfolio can return
ListedTickers(u_tbl, us_tbl, s_tbl, uid) ==
  UNION { { r.portfolio[n].ticker :
              n \in { m \in DOMAIN r.portfolio : "ticker" \in DOMAIN r.portfolio[m] } } :
          r \in getUserPortfolio(u_tbl, us_tbl, s_tbl, uid) \ {NULL} }

\* C23: a sell of exactly the owned quantity succeeds and appends a snapshot
\* of quantity 0; afterwards the ticker is not in the portfolio of the user,
\* getMostRecentStockHolding returns the snapshot of quantity 0, and a further
\* sell of a positive quantity is refused with owned quantity 0.
C23_SellAllLiquidates ==
  [][ \A p \in Procs :
        ( /\ pc[p] = "COMMIT" /\ pc'[p] = "done"
          /\ call[p].op = "sellStock" /\ call[p].n > 0
          /\ call[p].n = loc[p].holding.quantity
          /\ users_stocks = pre[p].users_stocks ) =>
          /\ result'[p].kind = "ok"
          /\ Len(users_stocks') = Len(users_stocks) + 1
          /\ users_stocks'[Len(users_stocks')].quantity = 0
          /\ call[p].ticker
               \notin ListedTickers(users', users_stocks', stocks', call[p].uid)
          /\ \A h \in getMostRecentStockHolding(users_stocks', call[p].uid, call[p].ticker) :
               /\ h # NULL /\ h.quantity = 0
               /\ \A n \in 1..MaxQty : sellRejected(h, n) /\ ownedQuantity(h) = 0 ]_vars

\* every operation called so far was given a positive quantity or amount
PositiveCalls == \A p \in Procs : pc[p] = "idle" \/ call[p].n > 0

\* C24: in every state reached by ledger operations called with positive
\* quantities and amounts, from balances >= 0, every balance is >= 0, and a
\* buy that draws credit leaves the balance of its user at exactly 0.
C24_BalanceNonNegative ==
  [][ PositiveCalls =>
        /\ \A i \in DOMAIN users' : users'[i].balance >= 0
        /\ \A p \in Returning :
             (call[p].op = "buyStock" /\ result'[p].record.credit_change > 0) =>
               getUser(users', call[p].uid).balance = 0 ]_vars

\* two operations of one user, both called with positive values, have both
\* committed, one of them a buy on credit, the other one on a stale balance
C24_Witness ==
  \E p, q \in Procs :
    /\ p # q /\ Succeeded(p) /\ Succeeded(q) /\ PositiveCalls
    /\ call[p].uid = call[q].uid
    /\ call[p].op = "buyStock" /\ result[p].record.credit_change > 0
    /\ loc[q].user.balance # getUser(pre[q].users, call[q].uid).balance
         \/ loc[p].user.balance # getUser(pre[p].users, call[p].uid).balance

\* C25: a wire of a user to themselves, of an amount within the balance,
\* leaves the balance of the user, and so the sum of all balances, unchanged.
C25_SelfWireNeutral ==
  \A p \in Procs :
    (Succeeded(p) /\ call[p].op = "wireToUser" /\ call[p].uid = call[p].dest
       /\ call[p].n <= UserBefore(p).balance) =>
      /\ UserAfter(p).balance = UserBefore(p).balance
      /\ SumBalances(users) = SumBalances(pre[p].users)

\* the row of uid in the users table tbl has a balance above its balance in
\* the table old
BalanceRaised(old, tbl, uid) ==
  getUser(old, uid) # NULL /\ getUser(tbl, uid) # NULL
    /\ getUser(tbl, uid).balance > getUser(old, uid).balance

\* C26: called with a quantity or amount <= 0, no operation raises the
\* balance of a user, lowers the balance of a user other than its caller
\* (wireToUser never lowers the destination's), or writes a holding snapshot
\* of a negative quantity.
C26_NonPositiveInputHarmless ==
  \A p \in Procs :
    (Done(p) /\ call[p].op # "none" /\ call[p].n <= 0) =>
      /\ \A uid \in Uids : ~BalanceRaised(pre[p].users, users, uid)
      /\ \A uid \in Uids \ {call[p].uid} : ~BalanceRaised(users, pre[p].users, uid)
      /\ \A i \in DOMAIN users_stocks :
           i > Len(pre[p].users_stocks) => users_stocks[i].quantity >= 0

\* C27: the holding snapshots of one (user, ticker) pair all have different
\* timestamps, so the row of the maximum timestamp is one row, also after two
\* trades on the pair that read the same clock value.
C27_SnapshotTimestampsDistinct ==
  \A i, j \in DOMAIN users_stocks :
    (i # j /\ users_stocks[i].uid = users_stocks[j].uid
       /\ users_stocks[i].ticker = users_stocks[j].ticker) =>
      users_stocks[i].timestamp # users_stocks[j].timestamp

\* the users the operation of p names
NamedUsers(p) ==
  {call[p].uid} \cup (IF call[p].op = "wireToUser" THEN {call[p].dest} ELSE {})

\* C28: an operation changes only what it names. The stocks table and the
\* stored snapshots are never changed; a trade adds snapshots of its own
\* (uid, ticker) only and changes the row of its own user only, a sell leaving
\* the loan_balance as it is; a wire adds no snapshot, changes no loan_balance
\* and changes no row other than those of its source and destination users.
C28_ChangesOnlyNamed ==
  [][ /\ stocks' = stocks
      /\ Len(users') = Len(users)
      /\ Len(users_stocks') >= Len(users_stocks)
      /\ SubSeq(users_stocks', 1, Len(users_stocks)) = users_stocks
      /\ \A i \in DOMAIN users :
           users'[i] # users[i] =>
             \E p \in Returning :
               /\ users[i].uid \in NamedUsers(p)
               /\ users'[i].uid = users[i].uid
               /\ users'[i].credit_limit = users[i].credit_limit
               /\ call[p].op # "buyStock" => users'[i].loan_balance = users[i].loan_balance
      /\ \A k \in DOMAIN users_stocks' :
           k > Len(users_stocks) =>
             \E p \in Returning :
               /\ IsTrade(call[p])
               /\ users_stocks'[k].uid = call[p].uid
               /\ users_stocks'[k].ticker = call[p].ticker ]_vars

\* a user in debt has sold: the balance has grown, the loan_balance and the
\* rows of the other users are as before
C28_Witness ==
  \E p \in Procs :
    /\ Succeeded(p) /\ call[p].op = "sellStock"
    /\ UserBefore(p).loan_balance > 0
    /\ UserAfter(p).loan_balance = UserBefore(p).loan_balance
    /\ UserAfter(p).balance > UserBefore(p).balance
    /\ \A uid \in Uids \ {call[p].uid} : getUser(users, uid) = getUser(pre[p].users, uid)
    /\ Len(users_stocks) = Len(pre[p].users_stocks) + 1

\* C29: every StockService operation (getStock, createStock, updateStock,
\* getAllStocks) releases the connection it acquired on every exit path, also
\* when the repository call throws: no finished operation holds a connection.
C29_StockServiceReleases ==
  \A p \in Procs :
    (Done(p) /\ call[p].op \in StockOps) => ~held[p]

====
